---- MODULE Spec2Model ----
(***************************************************************************)
(* A model of auto_images2.py, the Streamlit "CSV Image Downloader".       *)
(*                                                                         *)
(* Text is a sequence of one-character strings.  A column name is a text   *)
(* of a single symbol (<<"description">>), so that header fields and data  *)
(* fields go through the same CSV writer and reader.  The script is a      *)
(* single thread: between two user interactions it runs to the end (or to  *)
(* an uncaught exception); pc follows it through the Start Processing      *)
(* handler one loop iteration at a time.                                   *)
(***************************************************************************)
EXTENDS Integers, Sequences, FiniteSets, Bags, TLC

\* ------------------------------------------------------------ bounds
MaxRows == 2          \* data records of an uploaded table
MaxRuns == 2          \* presses of Start Processing in one behaviour
MaxLen == 3           \* length of the enumerated descriptions of SpecName

\* ------------------------------------------------------------ program constants
MaxNameLen == 150     \* safe_filename: [:150]
LogDescLen == 60      \* log line of a search: desc[:60]

\* ------------------------------------------------------------ Python values
None == <<>>                      \* an optional value: None, or Some(x)
Some(x) == <<x>>
Truthy(v) == v # None             \* a name or zip bytes are never empty
PyNone == <<"<None>">>            \* None as the value of a row's field (csv restval)

DESCRIPTION == <<"description">>
IMAGE == <<"image">>
ID == <<"id">>

Range(s) == {s[i] : i \in 1..Len(s)}
Take(s, n) == SubSeq(s, 1, IF Len(s) < n THEN Len(s) ELSE n)

Rep(c, n) == [i \in 1..n |-> c]

\* ------------------------------------------------------------ str methods
Whitespace == {" "}

\* str.strip(): drop the leading and the trailing whitespace
Strip(s) ==
    LET keep == {i \in 1..Len(s) : s[i] \notin Whitespace}
    IN  IF keep = {} THEN <<>>
        ELSE SubSeq(s, CHOOSE i \in keep : \A j \in keep : i <= j,
                       CHOOSE i \in keep : \A j \in keep : j <= i)

LowerChar(c) ==
    CASE c = "B" -> "b" [] c = "M" -> "m" [] c = "P" -> "p"
      [] c = "N" -> "n" [] c = "G" -> "g" [] c = "J" -> "j"
      [] OTHER -> c

\* str.lower()
Lower(s) == [i \in 1..Len(s) |-> LowerChar(s[i])]

\* str.endswith(suffix)
EndsWith(s, suffix) ==
    /\ Len(suffix) <= Len(s)
    /\ SubSeq(s, Len(s) - Len(suffix) + 1, Len(s)) = suffix

\* ------------------------------------------------------------ safe_filename
Forbidden == {"\\", "/", ":", "*", "?", "\"", "<", ">", "|"}

\* the substitution of a regex without the +: one underscore per character
re_sub_each(text) ==
    [i \in 1..Len(text) |-> IF text[i] \in Forbidden THEN "_" ELSE text[i]]

\* the places where a match of [\\/:*?"<>|]+ starts: a forbidden character
\* that the match before it, being greedy, has not consumed
MatchStarts(text) ==
    {i \in 1..Len(text) : text[i] \in Forbidden /\ (i = 1 \/ text[i - 1] \notin Forbidden)}

\* re.sub(r'[\\/:*?"<>|]+', '_', text): every match becomes one underscore,
\* the characters outside the matches stay
re_sub(text) ==
    LET starts == MatchStarts(text)
        kept == SelectSeq([i \in 1..Len(text) |-> i],
                          LAMBDA i : text[i] \notin Forbidden \/ i \in starts)
    IN  [j \in 1..Len(kept) |-> IF text[kept[j]] \in Forbidden THEN "_" ELSE text[kept[j]]]

\* safe_filename with the regex lacking its +
safe_filename_each(text) == Take(Strip(re_sub_each(text)), MaxNameLen)

safe_filename(text) == Take(Strip(re_sub(text)), MaxNameLen)

\* ext = Path(urlparse(img_url).path).suffix or '.jpg'; fname = safe_filename(desc) + ext
DefaultExt == <<".", "j", "p", "g">>
FileName(desc, suffix) ==
    safe_filename(desc) \o (IF suffix = <<>> THEN DefaultExt ELSE suffix)

\* ------------------------------------------------------------ csv writer
Comma == ","
Quote == "\""

\* QUOTE_MINIMAL: a field holding the delimiter or the quote character is
\* quoted, and its quote characters are doubled
RECURSIVE DoubleQuotes(_)
DoubleQuotes(f) ==
    IF f = <<>> THEN <<>>
    ELSE (IF Head(f) = Quote THEN <<Quote, Quote>> ELSE <<Head(f)>>)
         \o DoubleQuotes(Tail(f))

WriteField(f) ==
    IF Range(f) \cap {Comma, Quote} # {}
    THEN <<Quote>> \o DoubleQuotes(f) \o <<Quote>>
    ELSE f

RECURSIVE JoinFields(_)
JoinFields(rec) ==
    IF rec = <<>> THEN <<>>
    ELSE IF Len(rec) = 1 THEN WriteField(rec[1])
    ELSE WriteField(Head(rec)) \o <<Comma>> \o JoinFields(Tail(rec))

\* csv.writer.writerow: a record of one empty field is written as "" so that
\* it is not read back as a blank line
WriteLine(rec) ==
    IF rec = <<<<>>>> THEN <<Quote, Quote>> ELSE JoinFields(rec)

\* ------------------------------------------------------------ csv reader
\* csv.reader on one line: line is the text, i the next position, st the
\* parser state, cur the field being read, acc the fields read so far
RECURSIVE ParseFrom(_, _, _, _, _)
ParseFrom(line, i, st, cur, acc) ==
    IF i > Len(line)
    THEN IF st = "START_RECORD" THEN acc ELSE Append(acc, cur)
    ELSE LET c == line[i] IN
         CASE st \in {"START_RECORD", "START_FIELD"} ->
                IF c = Quote THEN ParseFrom(line, i + 1, "IN_QUOTED_FIELD", <<>>, acc)
                ELSE IF c = Comma
                     THEN ParseFrom(line, i + 1, "START_FIELD", <<>>, Append(acc, <<>>))
                     ELSE ParseFrom(line, i + 1, "IN_FIELD", <<c>>, acc)
           [] st = "IN_FIELD" ->
                IF c = Comma
                THEN ParseFrom(line, i + 1, "START_FIELD", <<>>, Append(acc, cur))
                ELSE ParseFrom(line, i + 1, "IN_FIELD", Append(cur, c), acc)
           [] st = "IN_QUOTED_FIELD" ->
                IF c = Quote
                THEN ParseFrom(line, i + 1, "QUOTE_IN_QUOTED_FIELD", cur, acc)
                ELSE ParseFrom(line, i + 1, "IN_QUOTED_FIELD", Append(cur, c), acc)
           [] OTHER ->  \* QUOTE_IN_QUOTED_FIELD
                IF c = Quote
                THEN ParseFrom(line, i + 1, "IN_QUOTED_FIELD", Append(cur, c), acc)
                ELSE IF c = Comma
                     THEN ParseFrom(line, i + 1, "START_FIELD", <<>>, Append(acc, cur))
                     ELSE ParseFrom(line, i + 1, "IN_FIELD", Append(cur, c), acc)

ParseLine(line) == ParseFrom(line, 1, "START_RECORD", <<>>, <<>>)

\* ------------------------------------------------------------ csv.DictReader
\* records are the reader's rows of the uploaded lines, none longer than the
\* header.  The first record is the header; blank records are skipped; a
\* field the record lacks gets restval (None).
ReaderFieldnames(records) == IF records = <<>> THEN None ELSE Some(records[1])

RowOf(header, rec) ==
    [k \in Range(header) |->
        LET at == {i \in 1..Len(header) : header[i] = k}
            last == CHOOSE i \in at : \A j \in at : j <= i
        IN  IF last <= Len(rec) THEN rec[last] ELSE PyNone]

ReaderRows(records) ==
    IF records = <<>> THEN <<>>
    ELSE LET data == SelectSeq(Tail(records), LAMBDA rec : rec # <<>>)
         IN  [i \in 1..Len(data) |-> RowOf(records[1], data[i])]

\* ------------------------------------------------------------ csv.DictWriter
\* extrasaction='raise': a row holding a key that is no fieldname raises
Extras(names, row) == DOMAIN row \ Range(names)

Raises(names, rws) == \E i \in 1..Len(rws) : Extras(names, rws[i]) # {}

\* the record of a row: row.get(key, '') per fieldname, None written as ''
RecordOf(names, row) ==
    [i \in 1..Len(names) |->
        IF names[i] \in DOMAIN row /\ row[names[i]] # PyNone
        THEN row[names[i]] ELSE <<>>]

\* writeheader() then writerows(rows), when no row raises
WriteCsv(names, rws) ==
    <<WriteLine(names)>> \o [i \in 1..Len(rws) |-> WriteLine(RecordOf(names, rws[i]))]

\* ------------------------------------------------------------ out_dir
UpdatedCsv == <<"u", "p", "d", "a", "t", "e", "d", ".", "c", "s", "v">>

ImageExts ==
    { <<".", "j", "p", "g">>, <<".", "j", "p", "e", "g">>, <<".", "p", "n", "g">>,
      <<".", "g", "i", "f">>, <<".", "w", "e", "b", "p">> }

\* fn.lower().endswith((".jpg", ".jpeg", ".png", ".gif", ".webp"))
IsImageName(fn) == \E e \in ImageExts : EndsWith(Lower(fn), e)

\* ------------------------------------------------------------ inputs
\* descriptions of the uploaded rows: one of whitespace only, and one to be
\* stripped, quoted by the csv writer and sanitised for its file name
Descs == { <<" ">>, <<" ", "a", ",", "/">> }

\* headers of the uploaded tables
Headers == { <<DESCRIPTION>>, <<DESCRIPTION, IMAGE>>, <<ID, DESCRIPTION>>, <<ID>> }

\* the data records under a header: complete records, and, under a header of
\* two columns, the record that stops after its first field
DataRecords(header) ==
    { [i \in 1..Len(header) |->
          IF header[i] = DESCRIPTION THEN d
          ELSE IF header[i] = IMAGE THEN <<"o">> ELSE <<"1">>] : d \in Descs }
    \cup (IF Len(header) > 1 /\ header[1] # DESCRIPTION THEN {<<<<"1">>>>} ELSE {})

RECURSIVE SeqsUpTo(_, _)
SeqsUpTo(S, n) ==
    IF n = 0 THEN {<<>>}
    ELSE LET shorter == SeqsUpTo(S, n - 1)
         IN  shorter \cup {Append(q, x) : q \in {t \in shorter : Len(t) = n - 1}, x \in S}

\* the uploaded files, as the csv reader's records: the empty file, and a
\* header followed by at most MaxRows data records
Uploads ==
    {<<>>} \cup UNION { { <<h>> \o data : data \in SeqsUpTo(DataRecords(h), MaxRows) }
                        : h \in Headers }

\* the suffix of the result URL's path: none, or one that is no image extension
\* of the archive builder
Suffixes == { <<>>, <<".", "B", "M", "P">> }

\* ------------------------------------------------------------ state
VARIABLES
    csv_uploaded,   \* st.session_state.csv_uploaded: None or Some(name)
    rows,           \* st.session_state.rows: sequence of dicts
    fieldnames,     \* st.session_state.fieldnames: None or Some(header)
    zip_ready,      \* st.session_state.zip_ready: None or Some(archive)
    log_buffer,     \* st.session_state.log_buffer; an absent key reads as empty
    files,          \* the names of the files in out_dir
    pc,             \* "idle", or the place of the Start Processing handler
    idx,            \* rows the loop has gone through
    progress,       \* the progress bar: None, or <<numerator, denominator>>
    uploader,       \* the file in the upload control: None or Some(records)
    st_error,       \* st.error is shown by the current script run
    exc,            \* the uncaught exception of the current script run
    runs,           \* presses of Start Processing so far
    calls,          \* this script run's calls of download_image: <<row number, outcome>>
    last,           \* the step taken last
    name_desc,      \* SpecName: the description given to download_image
    name_suffix,    \* SpecName: the suffix of the result URL
    name_out        \* SpecName: None or Some(the file name derived)

session == <<csv_uploaded, rows, fieldnames, zip_ready, log_buffer>>
script == <<pc, idx, progress, uploader, st_error, exc, runs, calls, last>>
namer == <<name_desc, name_suffix, name_out>>
vars == <<session, files, script, namer>>

NoExc == "none"

\* ------------------------------------------------------------ views
\* line 56: the upload control is rendered
UploadOffered == csv_uploaded = None
\* line 76: the output folder input and Start Processing are rendered
ProcessingOffered == Truthy(csv_uploaded) /\ ~Truthy(zip_ready)
\* line 123: the download control and Find New Images are rendered
DownloadOffered == Truthy(zip_ready)

View ==
    IF csv_uploaded = None THEN "Empty"
    ELSE IF ~Truthy(zip_ready) THEN "Loaded" ELSE "Ready"

\* ------------------------------------------------------------ log
Line(kind, row, text) == [kind |-> kind, row |-> row, text |-> text]

\* log(msg): setdefault then append
log(buffer, msg) == Append(buffer, msg)

\* ------------------------------------------------------------ Init
Init ==
    /\ csv_uploaded = None
    /\ rows = <<>>
    /\ fieldnames = None
    /\ zip_ready = None
    /\ log_buffer = <<>>
    /\ files = {}
    /\ pc = "idle"
    /\ idx = 0
    /\ progress = None
    /\ uploader = None
    /\ st_error = FALSE
    /\ exc = NoExc
    /\ runs = 0
    /\ calls = {}
    /\ last = "init"
    /\ name_desc = <<>>
    /\ name_suffix = <<>>
    /\ name_out = None

\* ------------------------------------------------------------ upload
HeaderOf(records) ==
    IF ReaderFieldnames(records) = None THEN <<>> ELSE ReaderFieldnames(records)[1]

\* the validation of line 65
Accepted(names) == DESCRIPTION \in Range(names)

\* lines 59-71 with the session assignments made before the validation
Ingest_early(records) ==
    IF ~Accepted(HeaderOf(records))
    THEN [error |-> TRUE, csv_uploaded |-> csv_uploaded,
          rows |-> ReaderRows(records), fieldnames |-> Some(HeaderOf(records))]
    ELSE [error |-> FALSE, csv_uploaded |-> Some("table.csv"),
          rows |-> ReaderRows(records), fieldnames |-> Some(HeaderOf(records))]

\* lines 59-71: what the script makes of the uploaded file
Ingest(records) ==
    IF ~Accepted(HeaderOf(records))
    THEN [error |-> TRUE, csv_uploaded |-> csv_uploaded,
          rows |-> rows, fieldnames |-> fieldnames]
    ELSE [error |-> FALSE, csv_uploaded |-> Some("table.csv"),
          rows |-> ReaderRows(records), fieldnames |-> Some(HeaderOf(records))]

\* a file is put in the upload control and the script runs; after an accepted
\* file st.rerun() renders the Loaded view, which has no upload control
Upload ==
    /\ pc = "idle"
    /\ UploadOffered
    /\ \E records \in Uploads :
         LET got == Ingest(records) IN
         /\ csv_uploaded' = got.csv_uploaded
         /\ rows' = got.rows
         /\ fieldnames' = got.fieldnames
         /\ st_error' = got.error
         /\ uploader' = IF got.error THEN Some(records) ELSE None
    /\ exc' = NoExc
    /\ calls' = {}
    /\ last' = "upload"
    /\ UNCHANGED <<zip_ready, log_buffer, files, pc, idx, progress, runs, namer>>

\* ------------------------------------------------------------ download_image
NoName == <<>>

\* download_image(desc, out_dir): the outcomes of one call.  returned is the
\* value returned ('' when the search finds nothing), raised the exception
\* re-raised by line 34 (the search, the GET, the status check or open()
\* failing, none of which touches the destination file; a failure in the
\* middle of fh.write is not among the outcomes), written the file the call
\* leaves in out_dir.
download_image(desc) ==
    {[returned |-> NoName, raised |-> NoExc, written |-> None]}
    \cup {[returned |-> FileName(desc, sfx), raised |-> NoExc,
           written |-> Some(FileName(desc, sfx))] : sfx \in Suffixes}
    \cup {[returned |-> NoName, raised |-> "Exception", written |-> None]}

Outcome(res) ==
    IF res.raised # NoExc THEN "raised"
    ELSE IF res.returned = NoName THEN "none" ELSE "saved"

\* ------------------------------------------------------------ row processor
\* row.get("description", "")
Description(row) == IF DESCRIPTION \in DOMAIN row THEN row[DESCRIPTION] ELSE <<>>

\* the test of line 86 without the strip of line 85
IsBlank_unstripped(v) == v = <<>>

\* lines 85-86: the description is empty once stripped
IsBlank(v) == Strip(v) = <<>>

\* row["image"] = v
SetImage(row, v) ==
    [k \in DOMAIN row \cup {IMAGE} |-> IF k = IMAGE THEN v ELSE row[k]]

\* the loop body without its try/except: what download_image raises leaves the loop
Body_uncaught(n, row, res) ==
    LET v == Description(row)
        desc == Strip(v)
        searching == Line("search", n, Take(desc, LogDescLen))
    IN  IF v = PyNone
        THEN [escaped |-> "AttributeError", row |-> row, lines |-> <<>>,
              called |-> FALSE, written |-> None, progressed |-> FALSE]
        ELSE IF IsBlank(v)
        THEN [escaped |-> NoExc, row |-> SetImage(row, <<>>),
              lines |-> <<Line("skip", n, <<>>)>>,
              called |-> FALSE, written |-> None, progressed |-> FALSE]
        ELSE IF res.raised # NoExc
        THEN [escaped |-> res.raised, row |-> row, lines |-> <<searching>>,
              called |-> TRUE, written |-> res.written, progressed |-> FALSE]
        ELSE IF res.returned # NoName
        THEN [escaped |-> NoExc, row |-> SetImage(row, res.returned),
              lines |-> <<searching, Line("saved", n, res.returned)>>,
              called |-> TRUE, written |-> res.written, progressed |-> TRUE]
        ELSE [escaped |-> NoExc, row |-> SetImage(row, <<>>),
              lines |-> <<searching, Line("none", n, <<>>)>>,
              called |-> TRUE, written |-> res.written, progressed |-> TRUE]

\* lines 85-103, the body of the loop for row number n (idx + 1), res being
\* the outcome of download_image if it is called: the exception that leaves
\* the loop, the row as changed, the log lines added, whether download_image
\* was called, the file written, whether line 102 set the progress bar
Body(n, row, res) ==
    LET v == Description(row)
        desc == Strip(v)
        searching == Line("search", n, Take(desc, LogDescLen))
    IN  IF v = PyNone
        THEN [escaped |-> "AttributeError", row |-> row, lines |-> <<>>,
              called |-> FALSE, written |-> None, progressed |-> FALSE]
        ELSE IF IsBlank(v)
        THEN [escaped |-> NoExc, row |-> SetImage(row, <<>>),
              lines |-> <<Line("skip", n, <<>>)>>,
              called |-> FALSE, written |-> None, progressed |-> FALSE]
        ELSE IF res.raised # NoExc
        THEN [escaped |-> NoExc, row |-> SetImage(row, <<>>),
              lines |-> <<searching, Line("error", n, <<res.raised>>)>>,
              called |-> TRUE, written |-> res.written, progressed |-> TRUE]
        ELSE IF res.returned # NoName
        THEN [escaped |-> NoExc, row |-> SetImage(row, res.returned),
              lines |-> <<searching, Line("saved", n, res.returned)>>,
              called |-> TRUE, written |-> res.written, progressed |-> TRUE]
        ELSE [escaped |-> NoExc, row |-> SetImage(row, <<>>),
              lines |-> <<searching, Line("none", n, <<>>)>>,
              called |-> TRUE, written |-> res.written, progressed |-> TRUE]

\* Start Processing is pressed: lines 80-83, up to the first iteration
Start ==
    /\ pc = "idle"
    /\ ProcessingOffered
    /\ runs < MaxRuns
    /\ runs' = runs + 1
    /\ log_buffer' = log(log_buffer, Line("start", 0, <<>>))
    /\ progress' = Some(<<0, 1>>)
    /\ idx' = 0
    /\ pc' = IF Len(rows) = 0 THEN "archive" ELSE "loop"
    /\ uploader' = None
    /\ st_error' = FALSE
    /\ exc' = NoExc
    /\ calls' = {}
    /\ last' = "start"
    /\ UNCHANGED <<csv_uploaded, rows, fieldnames, zip_ready, files, namer>>

\* one iteration of the loop of line 84
ProcessRow ==
    /\ pc = "loop"
    /\ LET n == idx + 1
           desc == Strip(Description(rows[n]))
       IN  \E res \in download_image(desc) :
             LET did == Body(n, rows[n], res) IN
             /\ rows' = [rows EXCEPT ![n] = did.row]
             /\ log_buffer' = log_buffer \o did.lines
             /\ files' = IF did.called /\ did.written # None
                         THEN files \cup {did.written[1]} ELSE files
             /\ calls' = IF did.called THEN calls \cup {<<n, Outcome(res)>>} ELSE calls
             /\ exc' = did.escaped
             /\ IF did.escaped # NoExc
                THEN /\ pc' = "idle"
                     /\ UNCHANGED <<idx, progress>>
                ELSE /\ idx' = n
                     /\ pc' = IF n = Len(rows) THEN "archive" ELSE "loop"
                     /\ progress' = IF did.progressed THEN Some(<<n, Len(rows)>>)
                                    ELSE progress
    /\ last' = "row"
    /\ UNCHANGED <<csv_uploaded, fieldnames, zip_ready, uploader, st_error, runs, namer>>

\* ------------------------------------------------------------ archive builder
\* the archive of lines 106-117: the text of updated.csv and the entry names
Archive(names, rws, dir) ==
    [csv |-> WriteCsv(names, rws),
     entries |-> SetToBag({UpdatedCsv}) (+) SetToBag({fn \in dir : IsImageName(fn)})]

\* lines 105-120: updated.csv is written and zipped with the images of
\* out_dir; st.rerun() then renders the Ready view.  A row with a key that is
\* no fieldname makes writerows raise ValueError, after the file was created.
BuildArchive ==
    /\ pc = "archive"
    /\ pc' = "idle"
    /\ files' = files \cup {UpdatedCsv}
    /\ IF Raises(fieldnames[1], rows)
       THEN /\ exc' = "ValueError"
            /\ UNCHANGED <<zip_ready, progress>>
       ELSE /\ exc' = NoExc
            /\ zip_ready' = Some(Archive(fieldnames[1], rows, files'))
            /\ progress' = None
    /\ last' = "archive"
    /\ UNCHANGED <<csv_uploaded, rows, fieldnames, log_buffer, idx, uploader,
                   st_error, runs, calls, namer>>

\* ------------------------------------------------------------ reset
\* a reset that leaves the log in the session
Popped_without_log == {"csv_uploaded", "rows", "fieldnames", "zip_ready"}

\* the keys reset_app pops (line 51)
Popped == {"csv_uploaded", "rows", "fieldnames", "zip_ready", "log_buffer"}

\* Find New Images is pressed: reset_app pops the keys, st.rerun() runs the
\* script again and lines 40-41 give the popped keys their defaults
reset_app ==
    /\ pc = "idle"
    /\ DownloadOffered
    /\ csv_uploaded' = IF "csv_uploaded" \in Popped THEN None ELSE csv_uploaded
    /\ rows' = IF "rows" \in Popped THEN <<>> ELSE rows
    /\ fieldnames' = IF "fieldnames" \in Popped THEN None ELSE fieldnames
    /\ zip_ready' = IF "zip_ready" \in Popped THEN None ELSE zip_ready
    /\ log_buffer' = IF "log_buffer" \in Popped THEN <<>> ELSE log_buffer
    /\ idx' = 0
    /\ progress' = None
    /\ uploader' = None
    /\ st_error' = FALSE
    /\ exc' = NoExc
    /\ calls' = {}
    /\ last' = "reset"
    /\ UNCHANGED <<files, pc, runs, namer>>

\* ------------------------------------------------------------ specification
Next == Upload \/ Start \/ ProcessRow \/ BuildArchive \/ reset_app

Spec == Init /\ [][Next]_vars

\* ------------------------------------------------------------ file names alone
NameChars == {"a", " ", "/", ":"}

\* a text of MaxNameLen - 1 characters, one of MaxNameLen, one of
\* MaxNameLen + 1, and one whose run of forbidden characters straddles the cut
LongDescs ==
    { Rep("a", MaxNameLen - 1), Rep("a", MaxNameLen), Rep("a", MaxNameLen + 1),
      Rep("a", MaxNameLen - 1) \o <<"/", "/", "a">> }

NameDescs == SeqsUpTo(NameChars, MaxLen) \cup LongDescs

\* the suffix of the result URL's path: none, recognised in upper case, unknown
NameSuffixes == { <<>>, <<".", "P", "N", "G">>, <<".", "b", "m", "p">> }

InitName ==
    /\ csv_uploaded = None
    /\ rows = <<>>
    /\ fieldnames = None
    /\ zip_ready = None
    /\ log_buffer = <<>>
    /\ files = {}
    /\ pc = "idle"
    /\ idx = 0
    /\ progress = None
    /\ uploader = None
    /\ st_error = FALSE
    /\ exc = NoExc
    /\ runs = 0
    /\ calls = {}
    /\ last = "init"
    /\ name_desc \in NameDescs
    /\ name_suffix \in NameSuffixes
    /\ name_out = None

\* lines 24-25 of download_image
DeriveName ==
    /\ name_out = None
    /\ name_out' = Some(FileName(name_desc, name_suffix))
    /\ last' = "name"
    /\ UNCHANGED <<session, files, pc, idx, progress, uploader, st_error, exc,
                   runs, calls, name_desc, name_suffix>>

NextName == DeriveName

SpecName == InitName /\ [][NextName]_vars

\* ------------------------------------------------------------ what the claims read
\* the log lines of the current run: those after the last "start" line
RunLog ==
    LET starts == {i \in 1..Len(log_buffer) : log_buffer[i].kind = "start"}
    IN  IF starts = {} THEN <<>>
        ELSE SubSeq(log_buffer, (CHOOSE i \in starts : \A j \in starts : j <= i) + 1,
                    Len(log_buffer))

Logged(kind, n) == \E i \in 1..Len(RunLog) : RunLog[i].kind = kind /\ RunLog[i].row = n

\* the Start Processing handler has come to its end, by st.rerun() or by an
\* uncaught exception
HandlerEnded == pc = "idle" /\ last \in {"row", "archive"}

ImageOf(n) == IF IMAGE \in DOMAIN rows[n] THEN rows[n][IMAGE] ELSE PyNone

\* updated.csv of the archive, read back with csv.DictReader
ParsedRecords == [i \in 1..Len(zip_ready[1].csv) |-> ParseLine(zip_ready[1].csv[i])]
ParsedHeader == HeaderOf(ParsedRecords)
ParsedRows == ReaderRows(ParsedRecords)

\* C1 (as claimed): after a run over a table of at least one row whose header
\* has no image column yet, updated.csv of the archive parses to one record
\* per input row, in order, with the original columns in their order plus an
\* image column, the original values unchanged and the image value the
\* outcome recorded for the row.
C1_RoundTrip ==
    (HandlerEnded /\ last = "archive" /\ Len(rows) > 0 /\ IMAGE \notin Range(fieldnames[1])) =>
        /\ zip_ready # None
        /\ ParsedHeader = fieldnames[1] \o <<IMAGE>>
        /\ Len(ParsedRows) = Len(rows)
        /\ \A n \in 1..Len(rows) :
             /\ ParsedRows[n][IMAGE] = ImageOf(n)
             /\ \A k \in Range(fieldnames[1]) \ {IMAGE} : ParsedRows[n][k] = rows[n][k]

\* C2 (as claimed): whenever the Start Processing handler has come to its end
\* on a table whose rows all have a description value, the view is Ready and
\* the archive bytes are in the session.
C2_EndsReady ==
    (HandlerEnded /\ \A n \in 1..Len(rows) : Description(rows[n]) # PyNone) =>
        (View = "Ready" /\ zip_ready # None /\ DownloadOffered)

\* the rows with a file name as image value, and the image entries of the archive
Downloaded == {n \in 1..Len(rows) : ImageOf(n) \notin {<<>>, PyNone}}
ImageEntries == BagToSet(zip_ready[1].entries) \ {UpdatedCsv}

\* C3 (as claimed): the archive of a run holds exactly one updated.csv, an
\* entry for every row with a nonempty image value, no image entry that is no
\* row's image, and no entry shared by two downloaded rows.
C3_OneEntryPerDownload ==
    zip_ready # None =>
        /\ CopiesIn(UpdatedCsv, zip_ready[1].entries) = 1
        /\ \A n \in Downloaded : ImageOf(n) \in ImageEntries
        /\ \A e \in ImageEntries : \E n \in Downloaded : ImageOf(n) = e
        /\ \A n, m \in Downloaded : n # m => ImageOf(n) # ImageOf(m)

\* download_image was called for every row of the run and raised each time
AllFailed ==
    /\ Len(rows) > 0
    /\ \A n \in 1..Len(rows) : <<n, "raised">> \in calls

\* C4 (as claimed): when download_image raised for every row of the run, every
\* image value is empty and the archive holds updated.csv alone.
C4_FailedRunHasNoImages ==
    (zip_ready # None /\ AllFailed) =>
        /\ \A n \in 1..Len(rows) : ImageOf(n) = <<>>
        /\ BagToSet(zip_ready[1].entries) = {UpdatedCsv}

\* C5: while the upload control holds a table whose header lacks description
\* (the empty file included), the error is shown, every session field has its
\* initial value, and the view is Empty with no processing control.
C5_RejectedUploadChangesNothing ==
    (uploader # None /\ DESCRIPTION \notin Range(HeaderOf(uploader[1]))) =>
        /\ st_error
        /\ csv_uploaded = None
        /\ rows = <<>>
        /\ fieldnames = None
        /\ zip_ready = None
        /\ log_buffer = <<>>
        /\ View = "Empty"
        /\ ~ProcessingOffered
        /\ ~DownloadOffered

\* C5 witness: a table of header id with data rows is in the upload control
\* and the error is shown
C5_Witness ==
    /\ uploader # None
    /\ Len(uploader[1]) > 1
    /\ DESCRIPTION \notin Range(HeaderOf(uploader[1]))
    /\ st_error

\* C6: a row on which download_image raised has an empty image and an error
\* line in the log, the exception does not leave the loop, and the loop goes
\* on: it ends only after the last row, or at a row that has no description
\* value at all (a record shorter than the header).
C6_FailureStaysInRow ==
    /\ \A n \in 1..Len(rows) :
         <<n, "raised">> \in calls =>
            /\ n <= idx
            /\ ImageOf(n) = <<>>
            /\ Logged("error", n)
            /\ exc \notin {"Exception"}
    /\ pc = "archive" => idx = Len(rows)
    /\ (HandlerEnded /\ idx < Len(rows)) =>
            (exc = "AttributeError" /\ Description(rows[idx + 1]) = PyNone)

\* C6 witness: the loop has ended over two rows, the first failed and the
\* second downloaded
C6_Witness ==
    /\ pc = "archive"
    /\ idx = Len(rows)
    /\ Len(rows) > 1
    /\ <<1, "raised">> \in calls
    /\ <<2, "saved">> \in calls

\* the rows gone through whose description is blank or whitespace only
BlankRows ==
    {n \in 1..idx : Description(rows[n]) # PyNone /\ Strip(Description(rows[n])) = <<>>}

\* C7: a row gone through whose description is blank or whitespace only was
\* not given to download_image, has an empty image and a skip line in the log.
C7_BlankRowSkipped ==
    \A n \in BlankRows :
        /\ \A c \in calls : c[1] # n
        /\ ~Logged("search", n)
        /\ ImageOf(n) = <<>>
        /\ Logged("skip", n)

\* C7 witness: the loop has ended over a table with a whitespace-only row
\* followed by a row that was given to download_image
C7_Witness ==
    /\ 1 \in BlankRows
    /\ \E c \in calls : c[1] = 2
    /\ idx = Len(rows)

\* C9: after Find New Images every session field has its initial value and
\* the view is Empty: the upload control alone is offered.
C9_ResetRestoresInitial ==
    last = "reset" =>
        /\ csv_uploaded = None
        /\ rows = <<>>
        /\ fieldnames = None
        /\ log_buffer = <<>>
        /\ zip_ready = None
        /\ View = "Empty"
        /\ UploadOffered
        /\ ~ProcessingOffered
        /\ ~DownloadOffered

\* C9 witness: Find New Images was pressed after a run that downloaded a file
C9_Witness == last = "reset" /\ runs > 0 /\ files # {}

\* C10 (as claimed): in a run, after each row gone through the progress bar
\* shows (rows gone through) / (rows), so 1 when the loop has ended.
C10_ProgressAfterEachRow ==
    (pc \in {"loop", "archive"} /\ idx > 0) => progress = Some(<<idx, Len(rows)>>)

\* ------------------------------------------------------------ C8, under SpecName
Stem == SubSeq(name_out[1], 1,
               Len(name_out[1]) - Len(IF name_suffix = <<>> THEN DefaultExt ELSE name_suffix))
Ext == IF name_suffix = <<>> THEN DefaultExt ELSE name_suffix

\* a left to right scan that writes one underscore when it meets a forbidden
\* character and then skips the forbidden characters that follow it
RECURSIVE RunsReplaced(_, _)
RunsReplaced(d, inRun) ==
    IF d = <<>> THEN <<>>
    ELSE IF Head(d) \in Forbidden
         THEN (IF inRun THEN <<>> ELSE <<"_">>) \o RunsReplaced(Tail(d), TRUE)
         ELSE <<Head(d)>> \o RunsReplaced(Tail(d), FALSE)

RECURSIVE EachReplaced(_)
EachReplaced(d) ==
    IF d = <<>> THEN <<>>
    ELSE (IF Head(d) \in Forbidden THEN <<"_">> ELSE <<Head(d)>>) \o EachReplaced(Tail(d))

Short(d) == Len(d) <= 2 * MaxLen

\* the runs of forbidden characters of d, and its forbidden characters
Runs(d) == {i \in 1..Len(d) : d[i] \in Forbidden /\ (i = Len(d) \/ d[i + 1] \notin Forbidden)}
ForbiddenAt(d) == {i \in 1..Len(d) : d[i] \in Forbidden}

\* C8 (as claimed): the file name has one underscore for each occurrence of a
\* forbidden character, the other characters kept, and is at most 150 long.
C8_EachOccurrence ==
    name_out # None =>
        /\ Len(name_out[1]) <= MaxNameLen
        /\ Short(name_desc) => Stem = Strip(EachReplaced(name_desc))

\* C8 (amended): the file name is a stem followed by the extension; the stem is
\* the description with each run of forbidden characters replaced by one
\* underscore, stripped of surrounding whitespace and cut to 150 characters,
\* so the file name is at most 150 characters plus the extension.
C8_RunsReplaced ==
    name_out # None =>
        /\ name_out[1] = Stem \o Ext
        /\ Len(Stem) <= MaxNameLen
        /\ Len(name_out[1]) <= MaxNameLen + Len(Ext)
        /\ Range(Stem) \cap Forbidden = {}
        /\ Short(name_desc) => Stem = Strip(RunsReplaced(name_desc, FALSE))
        /\ (name_desc # <<>> /\ {Head(name_desc), name_desc[Len(name_desc)]} \cap Whitespace = {}) =>
              LET full == Len(name_desc) - Cardinality(ForbiddenAt(name_desc))
                              + Cardinality(Runs(name_desc))
              IN  Len(Stem) = IF full < MaxNameLen THEN full ELSE MaxNameLen

\* C8 witness: a name derived from a description longer than 150 characters
\* with a run of two forbidden characters
C8_Witness ==
    /\ name_out # None
    /\ Len(name_desc) > MaxNameLen
    /\ Cardinality(ForbiddenAt(name_desc)) > Cardinality(Runs(name_desc))
    /\ Len(name_out[1]) > MaxNameLen

====
